---- MODULE Spec2Model ----
(***************************************************************************)
(* Battleship backend (battleship_backend/server.py): one game session     *)
(* driven through /place, /begin and /fire, and the JSON scoreboard the     *)
(* session records its result into.                                         *)
(*                                                                          *)
(* game is the session's GameState, scoreboard the scoreboard file,         *)
(* record_calls the arguments of the calls of record_game_result so far,    *)
(* resp the response to the last request.                                    *)
(*                                                                          *)
(* Spec runs the session one request at a time.  LongSpec is the same       *)
(* session played until the boards are nearly full.  StoreSpec is the       *)
(* scoreboard store under threads that record finished games and read       *)
(* /stats: tmp is the temporary file of save_scoreboard, lock the holder of *)
(* SCOREBOARD_LOCK, workers the threads' frames.  OverlapSpec is the        *)
(* session under handler calls that overlap in time: calls holds their      *)
(* frames.  sweep is a parameter of the exploration.                        *)
(*                                                                          *)
(* Payload values are tagged with their JSON type so that the handlers'     *)
(* isinstance checks are decided by the value, as in the source.  Python    *)
(* counts a bool as an int (True is 1), and the model does too.             *)
(***************************************************************************)
EXTENDS Integers, Sequences, FiniteSets, TLC

VARIABLES game, scoreboard, record_calls, resp, sweep, tmp, lock, workers, calls

vars == <<game, scoreboard, record_calls, resp, sweep, tmp, lock, workers, calls>>

----------------------------------------------------------------------------
(* Program constants *)

BOARD_N == 10

SHIP_SIZES == <<2, 3, 5>>

SETUP_ORDER == <<5, 3, 2>>

\* Python's None, where the field is otherwise a non-negative number.
None == -1

\* A JSON string in the scoreboard file, where the field is otherwise a
\* non-negative number.
Text == -2

----------------------------------------------------------------------------
(* Bounds of the exploration *)

\* Each side fires at most MaxMiss fresh water cells in a game, its sweep
\* apart.
MaxMiss == 1

\* time.time() returns a whole second up to MaxTime.
MaxTime == 2

\* The threads that serve requests at the same time.
MaxThreads == 2

\* In OverlapSpec the first thread makes the calls of a client, one after the
\* other; each other thread makes MaxOverlap calls, each the same request
\* again while the first thread is serving it.
MaxOverlap == 1

\* In LongSpec each side first fires at LongSweep water cells.
LongSweep == 89

----------------------------------------------------------------------------
(* Payload values *)

IntVal(n) == [type |-> "int", val |-> n]

BoolVal(b) == [type |-> "bool", val |-> IF b THEN 1 ELSE 0]

NullVal == [type |-> "null", val |-> 0]

\* isinstance(x, int): true of bools as well
IsInt(x) == x.type \in {"int", "bool"}

\* isinstance(x, bool)
IsBool(x) == x.type = "bool"

----------------------------------------------------------------------------
(* Board geometry *)

in_bounds(r, c) == 0 <= r /\ r < BOARD_N /\ 0 <= c /\ c < BOARD_N

\* neighbors8 without the diagonals
neighbors8_Orthogonal(cell) ==
    { p \in { <<cell[1] - 1, cell[2]>>, <<cell[1] + 1, cell[2]>>,
              <<cell[1], cell[2] - 1>>, <<cell[1], cell[2] + 1>> } : in_bounds(p[1], p[2]) }

neighbors8(cell) ==
    { <<cell[1] + dr, cell[2] + dc>> : dr \in -1..1, dc \in -1..1 }
        \ { p \in { <<cell[1] + dr, cell[2] + dc>> : dr \in -1..1, dc \in -1..1 } :
              p = cell \/ ~in_bounds(p[1], p[2]) }

ring_around(ship_cells) ==
    { nb \in UNION { neighbors8(cell) : cell \in ship_cells } : nb \notin ship_cells }

----------------------------------------------------------------------------
(* Ships and fleets *)

Ship(cells, hits) == [cells |-> cells, hits |-> hits]

sunk(s) == s.cells = s.hits

all_sunk(ships) == \A i \in DOMAIN ships : sunk(ships[i])

\* the cells a fleet occupies
Occupied(ships) == UNION { ships[i].cells : i \in DOMAIN ships }

\* cells = [(row, col + i) ...] if horizontal else [(row + i, col) ...]
ShipCells(horizontal, row, col, size) ==
    IF horizontal
    THEN { <<row, col + i>> : i \in 0..(size - 1) }
    ELSE { <<row + i, col>> : i \in 0..(size - 1) }

----------------------------------------------------------------------------
(* Placement: generator and validator *)

Cells == (0..(BOARD_N - 1)) \X (0..(BOARD_N - 1))

\* can_place, the generator's inner validator: overlap and adjacency against
\* the cells occupied so far (the draw ranges keep the cells on the board)
can_place(occupied, cells) ==
    \A cell \in cells :
        /\ cell \notin occupied
        /\ \A nb \in neighbors8(cell) : nb \notin occupied

\* The anchors (r, c) the generator's random draws are explored at
DrawAnchors == { <<0, 0>>, <<0, 3>>, <<2, 1>> }

\* The candidate ships one pass of the retry loop can draw for a size:
\* horizontal, r = randrange(BOARD_N), c = randrange(BOARD_N - size + 1), or
\* vertical, r = randrange(BOARD_N - size + 1), c = randrange(BOARD_N).
Draws(size) ==
    { ShipCells(TRUE, a[1], a[2], size) :
        a \in { x \in DrawAnchors : x[1] < BOARD_N /\ x[2] < BOARD_N - size + 1 } }
    \cup
    { ShipCells(FALSE, a[1], a[2], size) :
        a \in { x \in DrawAnchors : x[1] < BOARD_N - size + 1 /\ x[2] < BOARD_N } }

\* random_place_ships_no_adjacent, resumed with `ships` placed: every fleet
\* the loop can return, each ship being the first draw that can_place accepts
\* (a size whose draws are all refused raises and returns no fleet).
RECURSIVE PlaceFrom(_, _, _)
PlaceFrom(sizes, ships, occupied) ==
    IF sizes = <<>>
    THEN { ships }
    ELSE UNION { PlaceFrom(Tail(sizes), Append(ships, Ship(cells, {})), occupied \cup cells) :
                   cells \in { d \in Draws(Head(sizes)) : can_place(occupied, d) } }

random_place_ships_no_adjacent(sizes) == PlaceFrom(sizes, <<>>, {})

\* can_place_player_ship: bounds, overlap and adjacency of every cell against
\* the player's ships placed so far
can_place_player_ship(g, cells) ==
    \A cell \in cells :
        /\ in_bounds(cell[1], cell[2])
        /\ cell \notin Occupied(g.player_ships)
        /\ \A nb \in neighbors8(cell) : nb \notin Occupied(g.player_ships)

----------------------------------------------------------------------------
(* Shot resolution *)

\* the first ship of the fleet holding the cell, 0 when there is none
ShipAt(ships, cell) ==
    IF \E i \in DOMAIN ships : cell \in ships[i].cells
    THEN CHOOSE i \in DOMAIN ships :
            /\ cell \in ships[i].cells
            /\ \A j \in DOMAIN ships : cell \in ships[j].cells => i <= j
    ELSE 0

\* the ring filter with nothing filtered out
unfired_All(ring, fired) == ring

\* ring = {p for p in ring if p not in fired}
unfired(ring, fired) == { p \in ring : p \notin fired }

\* resolve_shot without ship.hits.add(cell)
resolve_shot_HitUnmarked(ships, fired, cell) ==
    LET fired2 == fired \cup {cell}
        i == ShipAt(ships, cell)
    IN  IF i # 0
        THEN [result |-> "hit", ring_marks |-> {}, ships |-> ships, fired |-> fired2]
        ELSE [result |-> "miss", ring_marks |-> {}, ships |-> ships, fired |-> fired2]

\* apply_shot past its duplicate-shot guard.  The source mutates the fleet and
\* the history in place; here they are returned beside the result and the
\* reveal cells.
resolve_shot(ships, fired, cell) ==
    LET fired2 == fired \cup {cell}
        i == ShipAt(ships, cell)
    IN  IF i # 0
        THEN LET hit == Ship(ships[i].cells, ships[i].hits \cup {cell})
             IN  [result |-> "hit",
                  ring_marks |-> IF sunk(hit)
                                 THEN unfired(ring_around(hit.cells), fired2)
                                 ELSE {},
                  ships |-> [ships EXCEPT ![i] = hit],
                  fired |-> fired2]
        ELSE [result |-> "miss", ring_marks |-> {}, ships |-> ships, fired |-> fired2]

\* apply_shot without the duplicate-shot guard
apply_shot_Unguarded(ships, fired, cell) == resolve_shot(ships, fired, cell)

apply_shot(ships, fired, cell) ==
    IF cell \in fired
    THEN [result |-> "repeat", ring_marks |-> {}, ships |-> ships, fired |-> fired]
    ELSE resolve_shot(ships, fired, cell)

\* pick_cpu_shot returning its first draw, fired at or not
pick_cpu_shot_Any(g) == Cells

\* pick_cpu_shot: the coordinates the draw-until-unfired loop can return
pick_cpu_shot(g) == { cell \in Cells : cell \notin g.cpu_fired }

----------------------------------------------------------------------------
(* Scoreboard store *)

default_scoreboard ==
    [games_played |-> 0, wins |-> 0, losses |-> 0,
     player_hits |-> 0, player_misses |-> 0, cpu_hits |-> 0, cpu_misses |-> 0,
     fastest_win_seconds |-> None]

\* A file of the store: missing, unparseable ("corrupt": text that is no
\* JSON; "partial": JSON cut short by a write that did not finish), or a JSON
\* object that holds the keys `keys` with the values `data` gives them, a
\* value being a number, None (null) or Text.
FileMissing == [state |-> "missing", keys |-> {}, data |-> default_scoreboard]

FileCorrupt == [state |-> "corrupt", keys |-> {}, data |-> default_scoreboard]

FilePartial == [state |-> "partial", keys |-> {}, data |-> default_scoreboard]

FileJson(data) == [state |-> "json", keys |-> DOMAIN default_scoreboard, data |-> data]

\* isinstance(v, int) of a value read from the file
is_int(v) == v \notin {None, Text}

\* load_scoreboard: the defaults when the file is missing or json.load
\* raises, else the defaults overlaid with the keys the file holds, and
\* fastest_win_seconds reset to None when it is neither None nor an int
load_scoreboard(file) ==
    IF file.state # "json"
    THEN default_scoreboard
    ELSE LET base == [k \in DOMAIN default_scoreboard |->
                        IF k \in file.keys THEN file.data[k] ELSE default_scoreboard[k]]
         IN  [base EXCEPT !.fastest_win_seconds = IF @ # None /\ ~is_int(@) THEN None ELSE @]

\* the fields record_game_result adds to for a winner
Tallies(winner) ==
    {"games_played", IF winner = "player" THEN "wins" ELSE "losses",
     "player_hits", "player_misses", "cpu_hits", "cpu_misses"}

\* record_game_result raises TypeError at a += on a loaded value that is no
\* number
record_raises(winner, file) ==
    \E k \in Tallies(winner) : ~is_int(load_scoreboard(file)[k])

\* record_game_result counting the game as a win and as a loss
record_game_result_BothTallies(winner, elapsed_seconds, g, file) ==
    LET sb == load_scoreboard(file)
        cur == sb.fastest_win_seconds
    IN  [games_played |-> sb.games_played + 1,
         wins |-> sb.wins + 1,
         losses |-> sb.losses + 1,
         player_hits |-> sb.player_hits + g.player_hits,
         player_misses |-> sb.player_misses + g.player_misses,
         cpu_hits |-> sb.cpu_hits + g.cpu_hits,
         cpu_misses |-> sb.cpu_misses + g.cpu_misses,
         fastest_win_seconds |->
            IF winner = "player" /\ elapsed_seconds >= 0
                 /\ (cur = None \/ elapsed_seconds < cur)
            THEN elapsed_seconds
            ELSE cur]

\* record_game_result taking the fastest time from any game, won or lost
record_game_result_AnyWinner(winner, elapsed_seconds, g, file) ==
    LET sb == load_scoreboard(file)
        cur == sb.fastest_win_seconds
    IN  [games_played |-> sb.games_played + 1,
         wins |-> IF winner = "player" THEN sb.wins + 1 ELSE sb.wins,
         losses |-> IF winner = "player" THEN sb.losses ELSE sb.losses + 1,
         player_hits |-> sb.player_hits + g.player_hits,
         player_misses |-> sb.player_misses + g.player_misses,
         cpu_hits |-> sb.cpu_hits + g.cpu_hits,
         cpu_misses |-> sb.cpu_misses + g.cpu_misses,
         fastest_win_seconds |->
            IF elapsed_seconds >= 0 /\ (cur = None \/ elapsed_seconds < cur)
            THEN elapsed_seconds
            ELSE cur]

\* the record record_game_result hands to save_scoreboard
record_game_result(winner, elapsed_seconds, g, file) ==
    LET sb == load_scoreboard(file)
        cur == sb.fastest_win_seconds
    IN  [games_played |-> sb.games_played + 1,
         wins |-> IF winner = "player" THEN sb.wins + 1 ELSE sb.wins,
         losses |-> IF winner = "player" THEN sb.losses ELSE sb.losses + 1,
         player_hits |-> sb.player_hits + g.player_hits,
         player_misses |-> sb.player_misses + g.player_misses,
         cpu_hits |-> sb.cpu_hits + g.cpu_hits,
         cpu_misses |-> sb.cpu_misses + g.cpu_misses,
         fastest_win_seconds |->
            IF winner = "player" /\ elapsed_seconds >= 0
                 /\ (cur = None \/ elapsed_seconds < cur)
            THEN elapsed_seconds
            ELSE cur]

\* save_scoreboard: the temporary file replaces the canonical one
save_scoreboard(data) == FileJson(data)

----------------------------------------------------------------------------
(* Responses *)

NoCell == << >>

\* The fields of the JSON bodies the handlers return, with "", {} or NoCell
\* where a body leaves a field out; status is the HTTP status.  The counters
\* a body repeats are read from game; elapsed_seconds is kept in the bodies
\* that end a game.
Response(op, status, error) ==
    [op |-> op, status |-> status, error |-> error,
     player_result |-> "", player_ring_marks |-> {},
     cpu_shot |-> NoCell, cpu_result |-> "", cpu_ring_marks |-> {},
     game_over |-> FALSE, winner |-> "", elapsed_seconds |-> None,
     setup_done |-> FALSE]

Reject(op, error) == Response(op, 400, error)

----------------------------------------------------------------------------
(* The session *)

Threads == 1..MaxThreads

\* the frame of a thread that is in no call
NoWorker ==
    [op |-> "idle", pc |-> "done", winner |-> "", elapsed_seconds |-> 0,
     game |-> [player_hits |-> 0, player_misses |-> 0, cpu_hits |-> 0, cpu_misses |-> 0],
     sb |-> default_scoreboard, error |-> ""]

\* The frame of a thread that is in no handler.  A frame holds the payload,
\* the position pc, the locals of the handler (cells, the setup_index read by
\* +=, the side and cell of the shot being applied, the winner, the body
\* being built) and n, the calls a thread other than the first has made.
NoCall ==
    [op |-> "idle", pc |-> "done", row |-> NullVal, col |-> NullVal, horizontal |-> NullVal,
     cells |-> {}, index |-> 0, side |-> "", cell |-> NoCell, winner |-> "",
     body |-> Response("", 200, ""), n |-> 0]

\* the GameState new_game constructs around the CPU fleet
GameState(cpu_ships) ==
    [phase |-> "setup", start_time |-> None,
     player_ships |-> << >>, cpu_ships |-> cpu_ships,
     player_fired |-> {}, cpu_fired |-> {},
     player_hits |-> 0, player_misses |-> 0,
     cpu_hits |-> 0, cpu_misses |-> 0,
     setup_index |-> 0, stats_recorded |-> FALSE]

\* new_game: a session in setup, the CPU fleet placed; no request is being
\* served, the lock is free and there is no temporary file
Init ==
    /\ \E cpu_ships \in random_place_ships_no_adjacent(SHIP_SIZES) :
         game = GameState(cpu_ships)
    /\ scoreboard = FileMissing
    /\ record_calls = << >>
    /\ resp = Response("new", 200, "")
    /\ sweep = 0
    /\ tmp = FileMissing
    /\ lock = 0
    /\ workers = [t \in Threads |-> NoWorker]
    /\ calls = [t \in Threads |-> NoCall]

\* /place with setup_index advanced before the validator is asked
Place_IndexFirst(row, col, horizontal) ==
    /\ UNCHANGED <<scoreboard, record_calls>>
    /\ IF game.phase # "setup"
       THEN /\ resp' = Reject("place", "Not in setup phase")
            /\ UNCHANGED game
       ELSE IF ~IsInt(row) \/ ~IsInt(col) \/ ~IsBool(horizontal)
       THEN /\ resp' = Reject("place", "Invalid placement payload")
            /\ UNCHANGED game
       ELSE IF game.setup_index >= Len(SETUP_ORDER)
       THEN /\ resp' = Reject("place", "All ships already placed")
            /\ UNCHANGED game
       ELSE LET size == SETUP_ORDER[game.setup_index + 1]
                cells == ShipCells(horizontal.val = 1, row.val, col.val, size)
            IN  IF ~can_place_player_ship(game, cells)
                THEN /\ resp' = Reject("place", "Invalid placement (overlap/adjacent/out-of-bounds)")
                     /\ game' = [game EXCEPT !.setup_index = @ + 1]
                ELSE /\ game' = [game EXCEPT
                                   !.player_ships = Append(@, Ship(cells, {})),
                                   !.setup_index = @ + 1]
                     /\ resp' = [Response("place", 200, "") EXCEPT
                                   !.setup_done = (game.setup_index + 1 >= Len(SETUP_ORDER))]

\* /place
Place(row, col, horizontal) ==
    /\ UNCHANGED <<scoreboard, record_calls>>
    /\ IF game.phase # "setup"
       THEN /\ resp' = Reject("place", "Not in setup phase")
            /\ UNCHANGED game
       ELSE IF ~IsInt(row) \/ ~IsInt(col) \/ ~IsBool(horizontal)
       THEN /\ resp' = Reject("place", "Invalid placement payload")
            /\ UNCHANGED game
       ELSE IF game.setup_index >= Len(SETUP_ORDER)
       THEN /\ resp' = Reject("place", "All ships already placed")
            /\ UNCHANGED game
       ELSE LET size == SETUP_ORDER[game.setup_index + 1]
                cells == ShipCells(horizontal.val = 1, row.val, col.val, size)
            IN  IF ~can_place_player_ship(game, cells)
                THEN /\ resp' = Reject("place", "Invalid placement (overlap/adjacent/out-of-bounds)")
                     /\ UNCHANGED game
                ELSE /\ game' = [game EXCEPT
                                   !.player_ships = Append(@, Ship(cells, {})),
                                   !.setup_index = @ + 1]
                     /\ resp' = [Response("place", 200, "") EXCEPT
                                   !.setup_done = (game.setup_index + 1 >= Len(SETUP_ORDER))]

\* The values time.time() is explored at, in whole seconds: /begin reads
\* second 1, a later call a second from then up to MaxTime.
Clock(g) == IF g.start_time = None THEN {1} ELSE g.start_time..MaxTime

\* /begin without the check that every ship is placed
Begin_Unchecked ==
    /\ UNCHANGED <<scoreboard, record_calls>>
    /\ IF game.phase # "setup"
       THEN /\ resp' = Reject("begin", "Game is not in setup phase")
            /\ UNCHANGED game
       ELSE /\ \E now \in Clock(game) :
                 game' = [game EXCEPT !.phase = "play", !.start_time = now]
            /\ resp' = Response("begin", 200, "")

\* /begin refusing only a game in play
Begin_AfterOver ==
    /\ UNCHANGED <<scoreboard, record_calls>>
    /\ IF game.phase = "play"
       THEN /\ resp' = Reject("begin", "Game is not in setup phase")
            /\ UNCHANGED game
       ELSE IF game.setup_index < Len(SETUP_ORDER)
       THEN /\ resp' = Reject("begin", "Place all ships before starting")
            /\ UNCHANGED game
       ELSE /\ \E now \in Clock(game) :
                 game' = [game EXCEPT !.phase = "play", !.start_time = now]
            /\ resp' = Response("begin", 200, "")

\* /begin
Begin ==
    /\ UNCHANGED <<scoreboard, record_calls>>
    /\ IF game.phase # "setup"
       THEN /\ resp' = Reject("begin", "Game is not in setup phase")
            /\ UNCHANGED game
       ELSE IF game.setup_index < Len(SETUP_ORDER)
       THEN /\ resp' = Reject("begin", "Place all ships before starting")
            /\ UNCHANGED game
       ELSE /\ \E now \in Clock(game) :
                 game' = [game EXCEPT !.phase = "play", !.start_time = now]
            /\ resp' = Response("begin", 200, "")

----------------------------------------------------------------------------
(* The requests and draws explored *)

CellAt(k) == << k \div BOARD_N, k % BOARD_N >>

\* the first cell of a non-empty set of board cells in row-major order
First(S) ==
    CellAt(CHOOSE k \in 0..(BOARD_N * BOARD_N - 1) :
             /\ CellAt(k) \in S
             /\ \A j \in 0..(k - 1) : CellAt(j) \notin S)

\* The fresh cells a side is offered against a fleet.  Its first `sweep`
\* shots go to the first water cell it has not fired at; from then on it is
\* offered the first ship cell it has not fired at and, until it has missed
\* MaxMiss times more, the first water cell it has not fired at.
Explored(ships, fired, misses) ==
    LET targets == Occupied(ships) \ fired
        water == (Cells \ Occupied(ships)) \ fired
    IN  IF misses < sweep /\ water # {}
        THEN { First(water) }
        ELSE (IF targets = {} THEN {} ELSE { First(targets) })
             \cup (IF water = {} \/ misses >= sweep + MaxMiss THEN {} ELSE { First(water) })

\* the last cell of a non-empty set of board cells in row-major order
Last(S) ==
    CellAt(CHOOSE k \in 0..(BOARD_N * BOARD_N - 1) :
             /\ CellAt(k) \in S
             /\ \A j \in (k + 1)..(BOARD_N * BOARD_N - 1) : CellAt(j) \notin S)

\* /place bodies: anchors on the board in both orientations, anchors off it
\* on either side, and two bodies of the wrong types
PlaceRequests ==
    { <<IntVal(a[1]), IntVal(a[2]), BoolVal(h)>> :
        a \in { <<0, 0>>, <<1, 2>>, <<3, 0>> }, h \in BOOLEAN }
    \cup { <<IntVal(-1), IntVal(0), BoolVal(TRUE)>>,
           <<IntVal(9), IntVal(9), BoolVal(FALSE)>>,
           <<NullVal, IntVal(0), BoolVal(TRUE)>>,
           <<IntVal(0), IntVal(0), IntVal(1)>> }

\* /fire bodies: fresh cells, cells already fired at, and coordinates that
\* /fire refuses
FireRequests ==
    { <<IntVal(c[1]), IntVal(c[2])>> :
        c \in Explored(game.cpu_ships, game.player_fired, game.player_misses)
                \cup (IF game.player_fired = {} THEN {}
                      ELSE { First(game.player_fired), Last(game.player_fired) }) }
    \cup { <<IntVal(-1), IntVal(0)>>, <<IntVal(0), IntVal(BOARD_N)>>, <<NullVal, IntVal(0)>> }

\* the draws of pick_cpu_shot explored: fresh cells and a cell of the CPU's
\* history
CpuDraws(g) ==
    Explored(g.player_ships, g.cpu_fired, g.cpu_misses)
    \cup (IF g.cpu_fired = {} THEN {} ELSE { First(g.cpu_fired) })

----------------------------------------------------------------------------
(* /fire *)

\* int(time.time() - (game.start_time or time.time()))
Elapsed(g, now) == IF g.start_time = None THEN 0 ELSE now - g.start_time

\* The finalization of a finished game, g.phase being "over":
\* record_game_result unless the latch is set, then the latch, then the
\* response `body`; `now` is what time.time() returns.  record_game_result
\* raises when a loaded value cannot be added to or the scoreboard cannot be
\* written (saved is false): the handler stops there, the latch stays unset
\* and the request ends in a 500.
Finalize(g, winner, body) ==
    \E now \in Clock(g) :
    LET elapsed == Elapsed(g, now)
    IN  IF ~g.stats_recorded
        THEN /\ record_calls' = Append(record_calls,
                                     [winner |-> winner, elapsed_seconds |-> elapsed])
             /\ \E saved \in (IF record_raises(winner, scoreboard) THEN {FALSE} ELSE BOOLEAN) :
                IF saved
                THEN /\ scoreboard' = save_scoreboard(
                                         record_game_result(winner, elapsed, g, scoreboard))
                     /\ game' = [g EXCEPT !.stats_recorded = TRUE]
                     /\ resp' = [body EXCEPT !.game_over = TRUE, !.winner = winner,
                                             !.elapsed_seconds = elapsed]
                ELSE /\ scoreboard' = scoreboard
                     /\ game' = g
                     /\ resp' = Response("fire", 500, "Internal Server Error")
        ELSE /\ UNCHANGED <<scoreboard, record_calls>>
             /\ game' = g
             /\ resp' = [body EXCEPT !.game_over = TRUE, !.winner = winner,
                                     !.elapsed_seconds = elapsed]

\* Finish with the phase left as it was
Finish_PhaseKept(g, winner, body) == Finalize(g, winner, body)

\* The end of a game inside /fire: game.phase = "over", then the finalization
Finish(g, winner, body) == Finalize([g EXCEPT !.phase = "over"], winner, body)

\* the check after the player's shot, made on the player's own fleet
player_won_WrongFleet(g) == all_sunk(g.player_ships)

\* if all_sunk(game.cpu_ships), after the player's shot
player_won(g) == all_sunk(g.cpu_ships)

\* the check after the CPU's shot, made on the CPU's own fleet
cpu_won_WrongFleet(g) == all_sunk(g.cpu_ships)

\* if all_sunk(game.player_ships), after the CPU's shot
cpu_won(g) == all_sunk(g.player_ships)

\* /fire
Fire(row, col) ==
    IF game.phase # "play"
    THEN /\ resp' = Reject("fire", "Game is not in play phase")
         /\ UNCHANGED <<game, scoreboard, record_calls>>
    ELSE IF game.phase = "over"
    THEN Finalize(game, IF all_sunk(game.cpu_ships) THEN "player" ELSE "cpu",
                  Response("fire", 200, ""))
    ELSE IF ~IsInt(row) \/ ~IsInt(col) \/ ~in_bounds(row.val, col.val)
    THEN /\ resp' = Reject("fire", "Invalid coordinates")
         /\ UNCHANGED <<game, scoreboard, record_calls>>
    ELSE
      LET player_shot == apply_shot(game.cpu_ships, game.player_fired, <<row.val, col.val>>)
          g1 == [game EXCEPT
                   !.cpu_ships = player_shot.ships,
                   !.player_fired = player_shot.fired,
                   !.player_hits = IF player_shot.result = "hit" THEN @ + 1 ELSE @,
                   !.player_misses = IF player_shot.result = "miss" THEN @ + 1 ELSE @]
          body1 == [Response("fire", 200, "") EXCEPT
                      !.player_result = player_shot.result,
                      !.player_ring_marks = player_shot.ring_marks]
      IN  IF player_shot.result = "repeat"
          THEN /\ game' = g1
               /\ resp' = [body1 EXCEPT !.player_ring_marks = {}]
               /\ UNCHANGED <<scoreboard, record_calls>>
          ELSE IF player_won(g1)
          THEN Finish(g1, "player", body1)
          ELSE
            \E draw \in pick_cpu_shot(g1) \cap CpuDraws(g1) :
               LET cpu_shot == apply_shot(g1.player_ships, g1.cpu_fired, draw)
                   g2 == [g1 EXCEPT
                            !.player_ships = cpu_shot.ships,
                            !.cpu_fired = cpu_shot.fired,
                            !.cpu_hits = IF cpu_shot.result = "hit" THEN @ + 1 ELSE @,
                            !.cpu_misses = IF cpu_shot.result = "miss" THEN @ + 1 ELSE @]
                   body2 == [body1 EXCEPT
                               !.cpu_shot = draw,
                               !.cpu_result = cpu_shot.result,
                               !.cpu_ring_marks = cpu_shot.ring_marks]
               IN  IF cpu_won(g2)
                   THEN Finish(g2, "cpu", body2)
                   ELSE /\ game' = g2
                        /\ resp' = body2
                        /\ UNCHANGED <<scoreboard, record_calls>>

\* what the requests of one session served one at a time leave alone
others == <<sweep, tmp, lock, workers, calls>>

Next ==
    \/ \E rq \in PlaceRequests : Place(rq[1], rq[2], rq[3]) /\ UNCHANGED others
    \/ Begin /\ UNCHANGED others
    \/ \E rq \in FireRequests : Fire(rq[1], rq[2]) /\ UNCHANGED others

Spec == Init /\ [][Next]_vars

\* new_game with the CPU fleet of one draw, for sessions in which each side
\* starts with a sweep of the water
LongInit ==
    /\ game = GameState(CHOOSE cpu_ships \in random_place_ships_no_adjacent(SHIP_SIZES) : TRUE)
    /\ scoreboard = FileMissing
    /\ record_calls = << >>
    /\ resp = Response("new", 200, "")
    /\ sweep = LongSweep
    /\ tmp = FileMissing
    /\ lock = 0
    /\ workers = [t \in Threads |-> NoWorker]
    /\ calls = [t \in Threads |-> NoCall]

LongSpec == LongInit /\ [][Next]_vars

----------------------------------------------------------------------------
(* The scoreboard store under threads (StoreSpec)                          *)
(*                                                                          *)
(* Each thread is in one call: the record_game_result of the /fire that     *)
(* has ended a game of a session of its own, or the /stats handler.  A      *)
(* frame holds the call's arguments, its position pc, the scoreboard sb it   *)
(* has in memory and the exception that ended it.                           *)

\* the session of a frame, of which record_game_result reads the counters
Counters(ph, pm, ch, cm) ==
    [player_hits |-> ph, player_misses |-> pm, cpu_hits |-> ch, cpu_misses |-> cm]

\* The calls explored: games won by either side, in a time that is below,
\* at or above the stored fastest win, or negative after the clock was set
\* back; and /stats.
StoreCalls ==
    { [NoWorker EXCEPT !.op = "record", !.pc = "acquire", !.winner = "player",
                       !.elapsed_seconds = e, !.game = Counters(10, 1, 3, 1)] : e \in {-1, 0, 2} }
    \cup
    { [NoWorker EXCEPT !.op = "record", !.pc = "acquire", !.winner = "cpu",
                       !.elapsed_seconds = e, !.game = Counters(4, 1, 10, 0)] : e \in {0, 2} }
    \cup
    { [NoWorker EXCEPT !.op = "stats", !.pc = "acquire"] }

\* a scoreboard as two recorded games leave it
Stored ==
    [games_played |-> 2, wins |-> 1, losses |-> 1,
     player_hits |-> 15, player_misses |-> 4, cpu_hits |-> 12, cpu_misses |-> 6,
     fastest_win_seconds |-> 1]

\* The files the store is started on: none, text that is no JSON, a record
\* the program wrote, a record of an older schema that lacks fields, and
\* records edited to hold a string or a null in place of a number.
StoredFiles ==
    { FileMissing, FileCorrupt, FileJson(Stored),
      [FileJson(Stored) EXCEPT !.keys = {"games_played", "wins"}],
      FileJson([Stored EXCEPT !.fastest_win_seconds = Text]),
      FileJson([Stored EXCEPT !.wins = None]) }

StoreInit ==
    /\ game = GameState(CHOOSE cpu_ships \in random_place_ships_no_adjacent(SHIP_SIZES) : TRUE)
    /\ record_calls = << >>
    /\ resp = Response("new", 200, "")
    /\ sweep = 0
    /\ calls = [t \in Threads |-> NoCall]
    /\ scoreboard \in StoredFiles
    /\ tmp = FileMissing
    /\ lock = 0
    /\ workers \in [Threads -> StoreCalls]

\* what the store's threads leave alone
session == <<game, record_calls, resp, sweep, calls>>

\* with SCOREBOARD_LOCK, entered without waiting for the lock
Acquire_NoWait(t) ==
    /\ workers[t].pc = "acquire"
    /\ lock' = t
    /\ workers' = [workers EXCEPT ![t].pc = IF workers[t].op = "record" THEN "update" ELSE "read"]
    /\ UNCHANGED <<scoreboard, tmp, session>>

\* with SCOREBOARD_LOCK: the thread waits until the lock is free and takes it
Acquire(t) ==
    /\ workers[t].pc = "acquire"
    /\ lock = 0
    /\ lock' = t
    /\ workers' = [workers EXCEPT ![t].pc = IF workers[t].op = "record" THEN "update" ELSE "read"]
    /\ UNCHANGED <<scoreboard, tmp, session>>

\* record_game_result from load_scoreboard to the call of save_scoreboard;
\* an exception leaves the with block, which releases the lock
Update(t) ==
    /\ workers[t].pc = "update"
    /\ IF record_raises(workers[t].winner, scoreboard)
       THEN /\ workers' = [workers EXCEPT ![t].pc = "raised", ![t].error = "TypeError"]
            /\ lock' = 0
       ELSE /\ workers' = [workers EXCEPT
                             ![t].pc = "open",
                             ![t].sb = record_game_result(workers[t].winner,
                                                          workers[t].elapsed_seconds,
                                                          workers[t].game, scoreboard)]
            /\ UNCHANGED lock
    /\ UNCHANGED <<scoreboard, tmp, session>>

\* save_scoreboard opening the scoreboard file itself for writing
Open_InPlace(t) ==
    /\ workers[t].pc = "open"
    /\ scoreboard' = FilePartial
    /\ workers' = [workers EXCEPT ![t].pc = "dump"]
    /\ UNCHANGED <<tmp, lock, session>>

\* save_scoreboard: open(tmp_path, "w") creates or truncates the temporary
\* file, or raises OSError
Open(t) ==
    /\ workers[t].pc = "open"
    /\ \/ /\ tmp' = FilePartial
          /\ workers' = [workers EXCEPT ![t].pc = "dump"]
          /\ UNCHANGED lock
       \/ /\ workers' = [workers EXCEPT ![t].pc = "raised", ![t].error = "OSError"]
          /\ lock' = 0
          /\ UNCHANGED tmp
    /\ UNCHANGED <<scoreboard, session>>

\* save_scoreboard: json.dump and the close of the temporary file, or an
\* OSError part of the way
Dump(t) ==
    /\ workers[t].pc = "dump"
    /\ \/ /\ tmp' = save_scoreboard(workers[t].sb)
          /\ workers' = [workers EXCEPT ![t].pc = "replace"]
          /\ UNCHANGED lock
       \/ /\ workers' = [workers EXCEPT ![t].pc = "raised", ![t].error = "OSError"]
          /\ lock' = 0
          /\ UNCHANGED tmp
    /\ UNCHANGED <<scoreboard, session>>

\* save_scoreboard: os.replace(tmp_path, SCOREBOARD_PATH), one atomic rename
Replace(t) ==
    /\ workers[t].pc = "replace"
    /\ scoreboard' = tmp
    /\ tmp' = FileMissing
    /\ workers' = [workers EXCEPT ![t].pc = "release"]
    /\ UNCHANGED <<lock, session>>

\* /stats: sb = load_scoreboard()
Read(t) ==
    /\ workers[t].pc = "read"
    /\ workers' = [workers EXCEPT ![t].pc = "release", ![t].sb = load_scoreboard(scoreboard)]
    /\ UNCHANGED <<scoreboard, tmp, lock, session>>

\* the end of the with block
Release(t) ==
    /\ workers[t].pc = "release"
    /\ lock' = 0
    /\ workers' = [workers EXCEPT ![t].pc = "done"]
    /\ UNCHANGED <<scoreboard, tmp, session>>

\* The process dies: every thread that is in a call stops where it is, the
\* files stay as they are.
Crash ==
    /\ \E t \in Threads : workers[t].pc \notin {"done", "raised", "killed"}
    /\ workers' = [t \in Threads |->
                     IF workers[t].pc \in {"done", "raised"}
                     THEN workers[t]
                     ELSE [workers[t] EXCEPT !.pc = "killed"]]
    /\ lock' = 0
    /\ UNCHANGED <<scoreboard, tmp, session>>

StoreNext ==
    \/ \E t \in Threads : Acquire(t)
    \/ \E t \in Threads : Update(t)
    \/ \E t \in Threads : Open(t)
    \/ \E t \in Threads : Dump(t)
    \/ \E t \in Threads : Replace(t)
    \/ \E t \in Threads : Read(t)
    \/ \E t \in Threads : Release(t)
    \/ Crash

StoreSpec == StoreInit /\ [][StoreNext]_vars

----------------------------------------------------------------------------
(* One session under handler calls that overlap in time (OverlapSpec)      *)
(*                                                                          *)
(* The handlers take no lock on the session, so the threads serving two     *)
(* requests for one game_id run their statements in any order.  A step is    *)
(* the statements of a handler between two accesses to the session that      *)
(* another thread's statements can come between.                             *)

\* what the handlers' steps leave alone when they touch the session only
store == <<scoreboard, record_calls, sweep, tmp, lock, workers>>

\* return jsonify(r): the call of thread t ends
Return(t, r) ==
    /\ resp' = r
    /\ calls' = [calls EXCEPT ![t] = [NoCall EXCEPT !.n = calls[t].n]]

\* the step of thread t to position pc
Goto(t, pc) == calls' = [calls EXCEPT ![t].pc = pc]

\* A request for the session reaches thread t: the first thread takes a
\* request when no call is being served, another thread takes the request
\* the first thread has just taken.
Arrives(t, op, rq) ==
    /\ calls[t].op = "idle"
    /\ \/ t = 1 /\ \A u \in Threads : calls[u].op = "idle"
       \/ /\ t # 1
          /\ calls[t].n < MaxOverlap
          /\ calls[1].op = op
          /\ calls[1].pc = "enter"
          /\ rq = <<calls[1].row, calls[1].col, calls[1].horizontal>>
    /\ calls' = [calls EXCEPT ![t] = [NoCall EXCEPT
                                        !.op = op, !.pc = "enter",
                                        !.n = IF t = 1 THEN 0 ELSE calls[t].n + 1,
                                        !.row = rq[1], !.col = rq[2], !.horizontal = rq[3],
                                        !.body = Response(op, 200, "")]]
    /\ UNCHANGED <<game, resp, store>>

\* /place bodies: a fleet that the validator accepts, offered for each size
OverlapPlaces ==
    { <<IntVal(1), IntVal(2), BoolVal(TRUE)>>,
      <<IntVal(3), IntVal(0), BoolVal(TRUE)>>,
      <<IntVal(0), IntVal(0), BoolVal(FALSE)>> }

\* /fire bodies: the fresh cells explored and a cell off the board
OverlapFires ==
    { <<IntVal(c[1]), IntVal(c[2]), NullVal>> :
        c \in Explored(game.cpu_ships, game.player_fired, game.player_misses) }
    \cup { <<IntVal(0), IntVal(BOARD_N), NullVal>> }

\* place, lines 329-333: the phase and the payload
PlaceEnter(t) ==
    /\ calls[t].op = "place" /\ calls[t].pc = "enter"
    /\ IF game.phase # "setup"
       THEN Return(t, Reject("place", "Not in setup phase"))
       ELSE IF ~IsInt(calls[t].row) \/ ~IsInt(calls[t].col) \/ ~IsBool(calls[t].horizontal)
       THEN Return(t, Reject("place", "Invalid placement payload"))
       ELSE Goto(t, "index") /\ UNCHANGED resp
    /\ UNCHANGED <<game, store>>

\* place, lines 335-343: the size of the next ship and its cells
PlaceIndex(t) ==
    /\ calls[t].op = "place" /\ calls[t].pc = "index"
    /\ IF game.setup_index >= Len(SETUP_ORDER)
       THEN Return(t, Reject("place", "All ships already placed"))
       ELSE /\ calls' = [calls EXCEPT
                           ![t].pc = "validate",
                           ![t].cells = ShipCells(calls[t].horizontal.val = 1,
                                                  calls[t].row.val, calls[t].col.val,
                                                  SETUP_ORDER[game.setup_index + 1])]
            /\ UNCHANGED resp
    /\ UNCHANGED <<game, store>>

\* place, lines 345-346: the validator
PlaceValidate(t) ==
    /\ calls[t].op = "place" /\ calls[t].pc = "validate"
    /\ IF ~can_place_player_ship(game, calls[t].cells)
       THEN Return(t, Reject("place", "Invalid placement (overlap/adjacent/out-of-bounds)"))
       ELSE Goto(t, "append") /\ UNCHANGED resp
    /\ UNCHANGED <<game, store>>

\* place, lines 348-349: the ship joins the fleet
PlaceAppend(t) ==
    /\ calls[t].op = "place" /\ calls[t].pc = "append"
    /\ game' = [game EXCEPT !.player_ships = Append(@, Ship(calls[t].cells, {}))]
    /\ Goto(t, "load_index")
    /\ UNCHANGED <<resp, store>>

\* place, line 350: game.setup_index += 1 reads the index
PlaceLoadIndex(t) ==
    /\ calls[t].op = "place" /\ calls[t].pc = "load_index"
    /\ calls' = [calls EXCEPT ![t].pc = "store_index", ![t].index = game.setup_index]
    /\ UNCHANGED <<game, resp, store>>

\* place, lines 350-362: game.setup_index += 1 writes the index; the body
PlaceStoreIndex(t) ==
    /\ calls[t].op = "place" /\ calls[t].pc = "store_index"
    /\ game' = [game EXCEPT !.setup_index = calls[t].index + 1]
    /\ Return(t, [Response("place", 200, "") EXCEPT
                    !.setup_done = (calls[t].index + 1 >= Len(SETUP_ORDER))])
    /\ UNCHANGED store

\* fire, lines 399-400: the phase
FireEnter(t) ==
    /\ calls[t].op = "fire" /\ calls[t].pc = "enter"
    /\ IF game.phase # "play"
       THEN Return(t, Reject("fire", "Game is not in play phase"))
       ELSE Goto(t, "over") /\ UNCHANGED resp
    /\ UNCHANGED <<game, store>>

\* fire, lines 402-425: game.over, read after the phase was found to be
\* "play", and the coordinates
FireOver(t) ==
    /\ calls[t].op = "fire" /\ calls[t].pc = "over"
    /\ IF game.phase = "over"
       THEN /\ calls' = [calls EXCEPT
                           ![t].pc = "latch",
                           ![t].winner = IF all_sunk(game.cpu_ships) THEN "player" ELSE "cpu"]
            /\ UNCHANGED resp
       ELSE IF ~IsInt(calls[t].row) \/ ~IsInt(calls[t].col)
                 \/ ~in_bounds(calls[t].row.val, calls[t].col.val)
       THEN Return(t, Reject("fire", "Invalid coordinates"))
       ELSE /\ calls' = [calls EXCEPT
                           ![t].pc = "shot_check", ![t].side = "player",
                           ![t].cell = <<calls[t].row.val, calls[t].col.val>>]
            /\ UNCHANGED resp
    /\ UNCHANGED <<game, store>>

\* the history of the side whose shot thread t is applying
Fired(t) == IF calls[t].side = "player" THEN game.player_fired ELSE game.cpu_fired

\* apply_shot, lines 222-223: the duplicate-shot guard; for the player's
\* shot the repeat body of fire, lines 433-447
ShotCheck(t) ==
    /\ calls[t].op = "fire" /\ calls[t].pc = "shot_check"
    /\ IF calls[t].cell \notin Fired(t)
       THEN Goto(t, "shot_add") /\ UNCHANGED resp
       ELSE IF calls[t].side = "player"
       THEN Return(t, [calls[t].body EXCEPT !.player_result = "repeat"])
       ELSE /\ calls' = [calls EXCEPT
                           ![t].pc = "won",
                           ![t].body = [@ EXCEPT !.cpu_shot = calls[t].cell,
                                                 !.cpu_result = "repeat"]]
            /\ UNCHANGED resp
    /\ UNCHANGED <<game, store>>

\* apply_shot, lines 225-242, and the counters of fire, lines 428-431 and
\* 476-479
ShotAdd(t) ==
    /\ calls[t].op = "fire" /\ calls[t].pc = "shot_add"
    /\ IF calls[t].side = "player"
       THEN LET shot == resolve_shot(game.cpu_ships, game.player_fired, calls[t].cell)
            IN  /\ game' = [game EXCEPT
                              !.cpu_ships = shot.ships,
                              !.player_fired = shot.fired,
                              !.player_hits = IF shot.result = "hit" THEN @ + 1 ELSE @,
                              !.player_misses = IF shot.result = "miss" THEN @ + 1 ELSE @]
                /\ calls' = [calls EXCEPT
                               ![t].pc = "won",
                               ![t].body = [@ EXCEPT !.player_result = shot.result,
                                                     !.player_ring_marks = shot.ring_marks]]
       ELSE LET shot == resolve_shot(game.player_ships, game.cpu_fired, calls[t].cell)
            IN  /\ game' = [game EXCEPT
                              !.player_ships = shot.ships,
                              !.cpu_fired = shot.fired,
                              !.cpu_hits = IF shot.result = "hit" THEN @ + 1 ELSE @,
                              !.cpu_misses = IF shot.result = "miss" THEN @ + 1 ELSE @]
                /\ calls' = [calls EXCEPT
                               ![t].pc = "won",
                               ![t].body = [@ EXCEPT !.cpu_shot = calls[t].cell,
                                                     !.cpu_result = shot.result,
                                                     !.cpu_ring_marks = shot.ring_marks]]
    /\ UNCHANGED <<resp, store>>

\* fire, lines 449-450 and 481-482: all_sunk of the fleet fired at, and the
\* phase; lines 504-517 when the CPU's shot has not ended the game
FireWon(t) ==
    /\ calls[t].op = "fire" /\ calls[t].pc = "won"
    /\ IF calls[t].side = "player"
       THEN IF all_sunk(game.cpu_ships)
            THEN /\ game' = [game EXCEPT !.phase = "over"]
                 /\ calls' = [calls EXCEPT ![t].pc = "latch", ![t].winner = "player"]
                 /\ UNCHANGED resp
            ELSE Goto(t, "pick") /\ UNCHANGED <<game, resp>>
       ELSE IF all_sunk(game.player_ships)
            THEN /\ game' = [game EXCEPT !.phase = "over"]
                 /\ calls' = [calls EXCEPT ![t].pc = "latch", ![t].winner = "cpu"]
                 /\ UNCHANGED resp
            ELSE Return(t, calls[t].body) /\ UNCHANGED game
    /\ UNCHANGED store

\* fire, line 473: pick_cpu_shot
FirePick(t) ==
    /\ calls[t].op = "fire" /\ calls[t].pc = "pick"
    /\ \E draw \in pick_cpu_shot(game) \cap CpuDraws(game) :
          calls' = [calls EXCEPT ![t].pc = "shot_check", ![t].side = "cpu", ![t].cell = draw]
    /\ UNCHANGED <<game, resp, store>>

\* fire, lines 451-453, 403-406 and 483-485: the elapsed time and the test
\* of the latch; the body of a game that is recorded
FireLatch(t) ==
    /\ calls[t].op = "fire" /\ calls[t].pc = "latch"
    /\ IF ~game.stats_recorded
       THEN Goto(t, "record") /\ UNCHANGED resp
       ELSE \E now \in Clock(game) :
               Return(t, [calls[t].body EXCEPT
                            !.game_over = TRUE, !.winner = calls[t].winner,
                            !.elapsed_seconds = Elapsed(game, now)])
    /\ UNCHANGED <<game, store>>

\* fire, lines 454-470, 407-419 and 486-502: record_game_result, the latch
\* and the body; a record_game_result that raises ends the call in a 500
FireRecord(t) ==
    /\ calls[t].op = "fire" /\ calls[t].pc = "record"
    /\ \E now \in Clock(game) :
        LET elapsed == Elapsed(game, now)
        IN  /\ record_calls' = Append(record_calls,
                                      [winner |-> calls[t].winner, elapsed_seconds |-> elapsed])
            /\ \E saved \in (IF record_raises(calls[t].winner, scoreboard)
                             THEN {FALSE} ELSE BOOLEAN) :
                IF saved
                THEN /\ scoreboard' = save_scoreboard(
                                         record_game_result(calls[t].winner, elapsed,
                                                            game, scoreboard))
                     /\ game' = [game EXCEPT !.stats_recorded = TRUE]
                     /\ Return(t, [calls[t].body EXCEPT
                                     !.game_over = TRUE, !.winner = calls[t].winner,
                                     !.elapsed_seconds = elapsed])
                ELSE /\ UNCHANGED <<scoreboard, game>>
                     /\ Return(t, Response("fire", 500, "Internal Server Error"))
    /\ UNCHANGED <<sweep, tmp, lock, workers>>

\* new_game, with the CPU fleet of one draw
OverlapInit ==
    /\ game = GameState(CHOOSE cpu_ships \in random_place_ships_no_adjacent(SHIP_SIZES) : TRUE)
    /\ scoreboard = FileMissing
    /\ record_calls = << >>
    /\ resp = Response("new", 200, "")
    /\ sweep = 0
    /\ tmp = FileMissing
    /\ lock = 0
    /\ workers = [t \in Threads |-> NoWorker]
    /\ calls = [t \in Threads |-> NoCall]

OverlapNext ==
    \/ \E t \in Threads : \E rq \in OverlapPlaces : Arrives(t, "place", rq)
    \/ \E t \in Threads : \E rq \in OverlapFires : Arrives(t, "fire", rq)
    \/ /\ \A t \in Threads : calls[t].op = "idle"
       /\ Begin
       /\ UNCHANGED others
    \/ \E t \in Threads : PlaceEnter(t)
    \/ \E t \in Threads : PlaceIndex(t)
    \/ \E t \in Threads : PlaceValidate(t)
    \/ \E t \in Threads : PlaceAppend(t)
    \/ \E t \in Threads : PlaceLoadIndex(t)
    \/ \E t \in Threads : PlaceStoreIndex(t)
    \/ \E t \in Threads : FireEnter(t)
    \/ \E t \in Threads : FireOver(t)
    \/ \E t \in Threads : ShotCheck(t)
    \/ \E t \in Threads : ShotAdd(t)
    \/ \E t \in Threads : FireWon(t)
    \/ \E t \in Threads : FirePick(t)
    \/ \E t \in Threads : FireLatch(t)
    \/ \E t \in Threads : FireRecord(t)

OverlapSpec == OverlapInit /\ [][OverlapNext]_vars

----------------------------------------------------------------------------
(* Steps of the handlers, for the properties that speak of one call *)

FireStep == \E rq \in FireRequests : Fire(rq[1], rq[2])

\* every ship of the fleet has all its cells hit
FleetSunk(ships) == \A i \in DOMAIN ships : ships[i].hits = ships[i].cells

----------------------------------------------------------------------------
(* C1 *)

\* C1: record_game_result is called at most once in a session: not at all
\* while the game is not over, and exactly once from the /fire call that ends
\* the game on, whatever calls follow.
C1_RecordedOnce == Len(record_calls) = (IF game.phase = "over" THEN 1 ELSE 0)

\* a /fire call was answered after the game had ended and been recorded
C1_Witness ==
    /\ game.phase = "over"
    /\ Len(record_calls) = 1
    /\ resp.op = "fire"
    /\ resp.status = 400

----------------------------------------------------------------------------
(* C2 *)

\* C2: a /fire call on a session whose phase is "over" is never answered with
\* the wrong-phase error.
C2_FireWhenOverAccepted ==
    ~(game.phase = "over" /\ resp.op = "fire" /\ resp.error = "Game is not in play phase")

----------------------------------------------------------------------------
(* C3 *)

\* C3: a /fire call on a session that is over with stats_recorded false calls
\* record_game_result.
C3_LazyRecord ==
    [][(game.phase = "over" /\ ~game.stats_recorded /\ FireStep)
          => Len(record_calls') = Len(record_calls) + 1]_vars

----------------------------------------------------------------------------
(* C4 *)

\* C4: in phase "play" a /fire at a coordinate already in the player's shot
\* history answers "repeat" with no reveal cells and no CPU shot, and leaves
\* the session as it was.
C4_RepeatIsNoOp ==
    [][\A cell \in game.player_fired :
          (game.phase = "play" /\ resp'.op = "fire" /\ Fire(IntVal(cell[1]), IntVal(cell[2])))
             => /\ resp'.status = 200
                /\ resp'.player_result = "repeat"
                /\ resp'.player_ring_marks = {}
                /\ resp'.cpu_shot = NoCell
                /\ resp'.cpu_ring_marks = {}
                /\ ~resp'.game_over
                /\ game' = game]_vars

\* a repeat was answered on a session that has hit a ship and missed
C4_Witness ==
    /\ game.phase = "play"
    /\ resp.player_result = "repeat"
    /\ game.player_hits > 0
    /\ game.player_misses > 0
    /\ game.cpu_fired # {}

----------------------------------------------------------------------------
(* C5 *)

\* the winner handed to the last call of record_game_result
LastWinner(log) == IF log = << >> THEN "" ELSE log[Len(log)].winner

\* C5: the call in which the last CPU ship is sunk puts the session in phase
\* "over" with the player as winner and resolves no CPU shot; the call in
\* which the last player ship is sunk puts it in phase "over" with the CPU as
\* winner.
C5_EndsInTheSameCall ==
    [][/\ (game.phase = "play" /\ ~FleetSunk(game.cpu_ships) /\ FleetSunk(game'.cpu_ships))
            => /\ game'.phase = "over"
               /\ Len(record_calls') = Len(record_calls) + 1
               /\ LastWinner(record_calls') = "player"
               /\ resp'.status = 200 => (resp'.game_over /\ resp'.winner = "player"
                                           /\ resp'.cpu_shot = NoCell)
               /\ game'.cpu_fired = game.cpu_fired
               /\ game'.player_ships = game.player_ships
               /\ game'.cpu_hits = game.cpu_hits
               /\ game'.cpu_misses = game.cpu_misses
       /\ (game.phase = "play" /\ ~FleetSunk(game.player_ships) /\ FleetSunk(game'.player_ships))
            => /\ game'.phase = "over"
               /\ Len(record_calls') = Len(record_calls) + 1
               /\ LastWinner(record_calls') = "cpu"
               /\ resp'.status = 200 => (resp'.game_over /\ resp'.winner = "cpu")]_vars

\* the player has sunk the CPU fleet, the CPU having hit and missed before
C5_Witness ==
    /\ game.phase = "over"
    /\ FleetSunk(game.cpu_ships)
    /\ resp.winner = "player"
    /\ game.cpu_hits > 0
    /\ game.cpu_misses > 0

----------------------------------------------------------------------------
(* C6 *)

\* two cells are the same or touch, diagonals included
Touching(p, q) ==
    /\ p[1] - q[1] \in -1..1
    /\ p[2] - q[2] \in -1..1

FleetApart(ships) ==
    /\ \A i \in DOMAIN ships : \A p \in ships[i].cells :
          p[1] \in 0..(BOARD_N - 1) /\ p[2] \in 0..(BOARD_N - 1)
    /\ \A i, j \in DOMAIN ships :
          i # j => \A p \in ships[i].cells, q \in ships[j].cells : ~Touching(p, q)

\* C6: in both fleets every ship cell is on the board, no two ships share a
\* cell and no cell of a ship touches a cell of another ship, diagonally or
\* otherwise.
C6_FleetsApart == FleetApart(game.cpu_ships) /\ FleetApart(game.player_ships)

\* both fleets hold their three ships
C6_Witness ==
    /\ Len(game.cpu_ships) = 3
    /\ Len(game.player_ships) = 3
    /\ resp.op = "place"
    /\ resp.status = 200

----------------------------------------------------------------------------
(* C7 *)

\* the cells of the board that touch a ship and are not in it
RingOf(cells) == { p \in Cells : p \notin cells /\ \E q \in cells : Touching(p, q) }

\* the ships of a fleet that a step has sunk
NewlySunk(before, after) ==
    { i \in DOMAIN after : /\ i \in DOMAIN before
                           /\ after[i].hits = after[i].cells
                           /\ before[i].hits # before[i].cells }

\* what a shot reveals: the ring of the ship it has sunk less the cells in the
\* firing side's history, nothing when it has sunk none
Revealed(before, after, fired) ==
    UNION { RingOf(after[i].cells) \ fired : i \in NewlySunk(before, after) }

\* C7: the reveal cells of a shot are the ring of the ship it sinks less the
\* firing side's history, and none when it sinks no ship (a hit short of
\* sinking, a miss, a repeat); they hold no cell of any ship of the fleet
\* fired at and do not enter the history, which grows by the shot alone.
C7_RevealIsRing ==
    [][(game.phase = "play" /\ resp'.op = "fire" /\ resp'.status = 200)
          => /\ resp'.player_ring_marks
                   = Revealed(game.cpu_ships, game'.cpu_ships, game'.player_fired)
             /\ resp'.cpu_ring_marks
                   = Revealed(game.player_ships, game'.player_ships, game'.cpu_fired)
             /\ resp'.player_result \in {"miss", "repeat"} => resp'.player_ring_marks = {}
             /\ resp'.cpu_result \in {"miss", ""} => resp'.cpu_ring_marks = {}
             /\ resp'.player_ring_marks \cap Occupied(game'.cpu_ships) = {}
             /\ resp'.cpu_ring_marks \cap Occupied(game'.player_ships) = {}
             /\ resp'.player_ring_marks \cap game'.player_fired = {}
             /\ resp'.cpu_ring_marks \cap game'.cpu_fired = {}
             /\ Cardinality(game'.player_fired \ game.player_fired) <= 1
             /\ Cardinality(game'.cpu_fired \ game.cpu_fired)
                   <= (IF resp'.cpu_shot = NoCell THEN 0 ELSE 1)]_vars

\* a shot has sunk a CPU ship part of whose ring the player had fired at
C7_Witness ==
    /\ resp.op = "fire"
    /\ resp.player_result = "hit"
    /\ resp.player_ring_marks # {}
    /\ \E i \in DOMAIN game.cpu_ships :
          /\ game.cpu_ships[i].hits = game.cpu_ships[i].cells
          /\ resp.player_ring_marks = RingOf(game.cpu_ships[i].cells) \ game.player_fired
          /\ resp.player_ring_marks # RingOf(game.cpu_ships[i].cells)

----------------------------------------------------------------------------
(* C8 *)

\* C8: a request answered with a rejection leaves the session, the scoreboard
\* and the record calls as they were.
C8_RejectionChangesNothing ==
    [][resp'.status = 400
          => (game' = game /\ scoreboard' = scoreboard /\ record_calls' = record_calls)]_vars

\* the validator has refused a ship after another was placed
C8_Witness ==
    /\ game.phase = "setup"
    /\ game.setup_index = 1
    /\ resp.op = "place"
    /\ resp.error = "Invalid placement (overlap/adjacent/out-of-bounds)"

----------------------------------------------------------------------------
(* C9 *)

PhaseOrder ==
    { <<"setup", "setup">>, <<"setup", "play">>, <<"play", "play">>,
      <<"play", "over">>, <<"over", "over">> }

ShipSizes(ships) == [i \in DOMAIN ships |-> Cardinality(ships[i].cells)]

\* C9: /begin starts the game and stamps start_time exactly when the session
\* is in setup with its three ships placed, and is rejected otherwise; the
\* phase moves only setup -> play -> over; in play and over the player fleet
\* is three ships of 5, 3 and 2 cells in that order and start_time is set.
C9_BeginWhenPlaced ==
    /\ [](game.phase \in {"play", "over"}
            => (ShipSizes(game.player_ships) = <<5, 3, 2>> /\ game.start_time # None))
    /\ [][/\ <<game.phase, game'.phase>> \in PhaseOrder
          /\ (game.phase = "setup" /\ game'.phase = "play")
                => /\ game.setup_index = 3
                   /\ resp'.op = "begin"
                   /\ resp'.status = 200
                   /\ game'.start_time # None
          /\ game'.start_time # game.start_time
                => (game.phase = "setup" /\ game'.phase = "play")
          /\ (Begin /\ ~(game.phase = "setup" /\ game.setup_index = 3))
                => (resp'.status = 400 /\ game' = game)
          /\ (Begin /\ game.phase = "setup" /\ game.setup_index = 3)
                => game'.phase = "play"]_vars

\* /begin has started a game
C9_Witness ==
    /\ game.phase = "play"
    /\ resp.op = "begin"
    /\ resp.status = 200

----------------------------------------------------------------------------
(* C10 *)

\* C10: once the phase is "over" no request changes any field of the session
\* but stats_recorded, and that one only from false to true.
C10_OverIsFrozen ==
    [][game.phase = "over"
          => /\ game' = [game EXCEPT !.stats_recorded = game'.stats_recorded]
             /\ game.stats_recorded => game'.stats_recorded]_vars

\* a /begin was answered on a session that is over
C10_Witness ==
    /\ game.phase = "over"
    /\ resp.op = "begin"
    /\ resp.status = 400

----------------------------------------------------------------------------
(* C11 *)

\* the step in which thread t's record replaces the scoreboard file
Replacing(t) == workers[t].pc = "replace" /\ workers'[t].pc = "release"

\* C11: the record a call of record_game_result stores has games_played one
\* above the scoreboard it replaces, wins one above and losses the same when
\* the winner is the player, losses one above and wins the same otherwise,
\* and each of the four shot counters above by the session's counter.
C11_RecordAddsOneGame ==
    [][\A t \in Threads :
          Replacing(t) =>
            LET old == load_scoreboard(scoreboard)
                new == load_scoreboard(scoreboard')
                w == workers[t]
            IN  /\ new.games_played = old.games_played + 1
                /\ w.winner = "player" => (new.wins = old.wins + 1 /\ new.losses = old.losses)
                /\ w.winner # "player" => (new.losses = old.losses + 1 /\ new.wins = old.wins)
                /\ new.player_hits = old.player_hits + w.game.player_hits
                /\ new.player_misses = old.player_misses + w.game.player_misses
                /\ new.cpu_hits = old.cpu_hits + w.game.cpu_hits
                /\ new.cpu_misses = old.cpu_misses + w.game.cpu_misses]_vars

\* a game won by the CPU has been recorded over a scoreboard that held games
C11_Witness ==
    \E t \in Threads :
        /\ workers[t].op = "record"
        /\ workers[t].winner = "cpu"
        /\ workers[t].pc = "done"
        /\ scoreboard.state = "json"
        /\ scoreboard.data.games_played = Stored.games_played + 1
        /\ scoreboard.data.losses = Stored.losses + 1
        /\ scoreboard.data.wins = Stored.wins

----------------------------------------------------------------------------
(* C12 *)

\* the fastest win a reader of the scoreboard file gets
Fastest(file) == load_scoreboard(file).fastest_win_seconds

\* C12: the stored fastest_win_seconds changes only in the step that stores
\* the record of a game the player won, and then to that game's elapsed
\* seconds, which are below the value it had, if it had one; storing a game
\* the CPU won leaves it as it was; storing a game the player won in
\* elapsed >= 0 seconds leaves the minimum of the two; once set it is never
\* unset and never grows.
C12_FastestOnlyDrops ==
    [][/\ \A t \in Threads :
            Replacing(t) =>
              LET cur == Fastest(scoreboard)
                  new == Fastest(scoreboard')
                  w == workers[t]
              IN  /\ w.winner # "player" => new = cur
                  /\ (w.winner = "player" /\ w.elapsed_seconds >= 0)
                        => new = (IF cur = None \/ w.elapsed_seconds < cur
                                  THEN w.elapsed_seconds ELSE cur)
       /\ Fastest(scoreboard') # Fastest(scoreboard)
            => \E t \in Threads :
                  /\ Replacing(t)
                  /\ workers[t].winner = "player"
                  /\ Fastest(scoreboard') = workers[t].elapsed_seconds
                  /\ (Fastest(scoreboard) = None
                        \/ workers[t].elapsed_seconds < Fastest(scoreboard))
       /\ Fastest(scoreboard) # None
            => (Fastest(scoreboard') # None /\ Fastest(scoreboard') <= Fastest(scoreboard))]_vars

\* a player win in 0 seconds has been stored after /stats had read a fastest
\* win of 1 second
C12_Witness ==
    \E t, u \in Threads :
        /\ workers[t].op = "record"
        /\ workers[t].winner = "player"
        /\ workers[t].elapsed_seconds = 0
        /\ workers[t].pc = "done"
        /\ workers[u].op = "stats"
        /\ workers[u].pc = "done"
        /\ workers[u].sb.fastest_win_seconds = 1
        /\ Fastest(scoreboard) = 0

----------------------------------------------------------------------------
(* C13 *)

\* thread t is inside a with SCOREBOARD_LOCK block
InCycle(t) == workers[t].pc \in {"update", "open", "dump", "replace", "read", "release"}

\* the record calls whose record has replaced the scoreboard file
Saved(w) == { t \in Threads : w[t].op = "record" /\ w[t].pc \in {"release", "done"} }

GamesPlayed(file) == load_scoreboard(file).games_played

WinsAndLosses(file) == load_scoreboard(file).wins + load_scoreboard(file).losses

\* C13: at most one thread is between taking and releasing the lock, and it
\* holds the lock; while the process runs, the stored games_played and the
\* stored wins + losses each grow by exactly one with every record call whose
\* save has replaced the file, so n calls leave them n higher; /stats reads
\* the file while no record call is between its load and its release.
C13_RecordsDoNotInterleave ==
    /\ [](\A t, u \in Threads : (InCycle(t) /\ InCycle(u)) => t = u)
    /\ [](\A t \in Threads : InCycle(t) => lock = t)
    /\ [][(\A t \in Threads : workers'[t].pc # "killed")
            => /\ GamesPlayed(scoreboard') - Cardinality(Saved(workers'))
                    = GamesPlayed(scoreboard) - Cardinality(Saved(workers))
               /\ WinsAndLosses(scoreboard') - Cardinality(Saved(workers'))
                    = WinsAndLosses(scoreboard) - Cardinality(Saved(workers))
               /\ \A t \in Threads :
                     (workers[t].pc = "read" /\ workers'[t].pc = "release")
                        => /\ workers'[t].sb = load_scoreboard(scoreboard)
                           /\ \A u \in Threads : InCycle(u) => u = t]_vars

\* two record calls have completed, one of which waited for the lock, over a
\* scoreboard that held games
C13_Witness ==
    /\ \A t \in Threads : workers[t].op = "record" /\ workers[t].pc = "done"
    /\ \E t, u \in Threads : workers[t].winner # workers[u].winner
    /\ scoreboard.state = "json"
    /\ scoreboard.data.games_played = Stored.games_played + MaxThreads
    /\ scoreboard.data.wins + scoreboard.data.losses = Stored.wins + Stored.losses + MaxThreads

----------------------------------------------------------------------------
(* C14 *)

\* C14: the scoreboard file is never a partially written record, whether
\* the process runs on or dies at any step of a save; it changes only in the
\* step of os.replace, from the previous file to the complete new record.
C14_FileIsWhole ==
    /\ [](scoreboard.state # "partial")
    /\ [][scoreboard' # scoreboard
            => \E t \in Threads :
                  /\ Replacing(t)
                  /\ scoreboard' = FileJson(workers[t].sb)
                  /\ scoreboard'.keys = DOMAIN default_scoreboard]_vars

\* the process has died with the temporary file partly written, the
\* scoreboard file being the previous record
C14_Witness ==
    /\ \E t \in Threads : workers[t].op = "record" /\ workers[t].pc = "killed"
    /\ tmp.state = "partial"
    /\ scoreboard = FileJson(Stored)

----------------------------------------------------------------------------
(* C15 *)

\* C15: whatever the scoreboard file holds, load_scoreboard returns a
\* scoreboard of all eight fields, and the record_game_result of a /fire that
\* ends a game is not ended by an exception over what the file held.
C15_StoreNeverBlocks ==
    /\ DOMAIN load_scoreboard(scoreboard) = DOMAIN default_scoreboard
    /\ \A t \in Threads :
          (workers[t].op = "record" /\ workers[t].pc = "raised")
             => workers[t].error # "TypeError"

----------------------------------------------------------------------------
(* C16 *)

\* no handler call is being served
Quiet == \A t \in Threads : calls[t].op = "idle"

\* C16: whenever the /fire calls that overlapped on a session have returned,
\* record_game_result has been called at most once for the session, and
\* every coordinate of the player's history has been counted once in
\* player_hits or player_misses.
C16_OverlappingFiresAreSafe ==
    Quiet => /\ Len(record_calls) <= 1
             /\ game.player_hits + game.player_misses = Cardinality(game.player_fired)

----------------------------------------------------------------------------
(* C17 *)

\* C17: whenever the /place calls that overlapped on a session have
\* returned, no two ships of the player fleet share a cell or touch,
\* setup_index is the number of ships placed and at most 3, and the ships
\* have 5, 3 and 2 cells in that order.
C17_OverlappingPlacesAreSafe ==
    Quiet => /\ FleetApart(game.player_ships)
             /\ game.setup_index = Len(game.player_ships)
             /\ game.setup_index <= Len(SETUP_ORDER)
             /\ ShipSizes(game.player_ships)
                   = SubSeq(SETUP_ORDER, 1, Len(game.player_ships))

----------------------------------------------------------------------------
(* C18 *)

\* C18: while the session is in play some board cell is not in the CPU's
\* shot history, so pick_cpu_shot has a cell to return; the cell of a CPU
\* shot is on the board and was not in the history, which grows by it; and
\* a history that holds every cell of the player fleet, as a full one does,
\* is met only in phase "over".
C18_CpuShotIsFresh ==
    /\ [](game.phase = "play"
            => (pick_cpu_shot(game) # {}
                  /\ Cardinality(game.cpu_fired) < BOARD_N * BOARD_N))
    /\ []((game.phase # "setup" /\ Occupied(game.player_ships) \subseteq game.cpu_fired)
            => game.phase = "over")
    /\ [][(resp'.op = "fire" /\ resp'.cpu_shot # NoCell)
            => /\ game.phase = "play"
               /\ resp'.cpu_shot \in Cells
               /\ resp'.cpu_shot \notin game.cpu_fired
               /\ resp'.cpu_result \in {"hit", "miss"}
               /\ game'.cpu_fired = game.cpu_fired \cup {resp'.cpu_shot}]_vars

\* the CPU has fired at every cell of the board but one and the session is
\* still in play
C18_Witness ==
    /\ game.phase = "play"
    /\ Cardinality(game.cpu_fired) = BOARD_N * BOARD_N - 1
    /\ resp.op = "fire"
    /\ resp.cpu_shot # NoCell

----------------------------------------------------------------------------
(* C19 *)

\* the number of hit cells in a fleet
RECURSIVE HitCells(_)
HitCells(ships) ==
    IF ships = << >> THEN 0 ELSE Cardinality(Head(ships).hits) + HitCells(Tail(ships))

\* C19: each side's hits and misses add up to the size of its shot history;
\* the hit set of every ship is the ship's cells that are in the history of
\* the side firing at it; and each side's hits are the hit cells of the
\* fleet it fires at.
C19_CountersMatchHistories ==
    /\ game.player_hits + game.player_misses = Cardinality(game.player_fired)
    /\ game.cpu_hits + game.cpu_misses = Cardinality(game.cpu_fired)
    /\ \A i \in DOMAIN game.cpu_ships :
          /\ game.cpu_ships[i].hits = game.cpu_ships[i].cells \cap game.player_fired
          /\ game.cpu_ships[i].hits \subseteq game.cpu_ships[i].cells
    /\ \A i \in DOMAIN game.player_ships :
          /\ game.player_ships[i].hits = game.player_ships[i].cells \cap game.cpu_fired
          /\ game.player_ships[i].hits \subseteq game.player_ships[i].cells
    /\ game.player_hits = HitCells(game.cpu_ships)
    /\ game.cpu_hits = HitCells(game.player_ships)

\* both sides have hit, missed and sunk a ship, and the player has fired at
\* a cell again
C19_Witness ==
    /\ game.phase = "play"
    /\ resp.player_result = "repeat"
    /\ game.player_misses > 0
    /\ game.cpu_misses > 0
    /\ \E i \in DOMAIN game.cpu_ships : sunk(game.cpu_ships[i])
    /\ \E i \in DOMAIN game.player_ships : sunk(game.player_ships[i])

----------------------------------------------------------------------------
(* C20 *)

\* the fleet has ships and every one of them is sunk
FullySunk(ships) == ships # << >> /\ all_sunk(ships)

\* C20: in play the two shot histories have the same size; in over the
\* player's is larger by one when the CPU fleet is fully sunk and of the same
\* size when the player fleet is; the two fleets are never both fully sunk;
\* and the phase is "over" exactly when one of them is.
C20_TurnsBalanced ==
    /\ game.phase = "play"
          => Cardinality(game.cpu_fired) = Cardinality(game.player_fired)
    /\ (game.phase = "over" /\ FullySunk(game.cpu_ships))
          => Cardinality(game.player_fired) = Cardinality(game.cpu_fired) + 1
    /\ (game.phase = "over" /\ FullySunk(game.player_ships))
          => Cardinality(game.player_fired) = Cardinality(game.cpu_fired)
    /\ ~(FullySunk(game.cpu_ships) /\ FullySunk(game.player_ships))
    /\ game.phase = "over" <=> (FullySunk(game.cpu_ships) \/ FullySunk(game.player_ships))

\* the CPU has sunk the player fleet, the player having hit and missed
C20_Witness ==
    /\ game.phase = "over"
    /\ FullySunk(game.player_ships)
    /\ game.player_misses > 0
    /\ game.player_hits > 0
    /\ Cardinality(game.cpu_fired) = Cardinality(game.player_fired)

====
